---------------------------- MODULE Spec2Model ----------------------------
(* The AHRS communication module of the flight controller                  *)
(* (flight/OpenPilot/Modules/AHRSComms/ahrs_comms.c): the session task      *)
(* ahrscommsTask, the five change-notification callbacks and the request    *)
(* builders, as a state machine.                                            *)
(*                                                                          *)
(* The task is modelled at the granularity of its blocking calls: pc names  *)
(* the transport call (or the periodic wait) the task is blocked in, and    *)
(* one action is the return of that call, with a result chosen by the       *)
(* transport, followed by all the code the task runs up to its next         *)
(* blocking call.  Callbacks run in the event dispatcher's task, so they    *)
(* interleave with the session task at these points.                        *)
EXTENDS Integers, Sequences, FiniteSets, TLC

(***************************************************************************)
(* Bounds of the model                                                     *)
(***************************************************************************)
\* failed streaming exchanges explored (the sum of the five error counters)
MaxErrors == 1
\* calibration write-back notifications that may wait in the event queue
MaxPending == 2

(***************************************************************************)
(* Program constants                                                       *)
(***************************************************************************)
\* load_gps_position: "if(GPSGoodUpdates < 30)"
GPSGoodThreshold == 30
\* load_gps_position: "data.Satellites >= 7"
MinSatellites == 7
\* load_gps_position: "data.PDOP < 3.5", in tenths
MaxPDOP10 == 35
\* update_errors ... algorithm_errors are uint16_t
CounterWidth == 16

Categories == {"update", "attituderaw", "home", "calibration", "algorithm"}

\* AHRS_SET, AHRS_MEASURE, AHRS_ECHO
Modes == {"SET", "MEASURE", "ECHO"}

\* "float len = sqrt(Be[0]*Be[0] + ...)": the products are single precision.
\* A vector <<x, y, z, e>> stands for (x, y, z) / 10 * 2^e.  With |x|,|y|,|z|
\* at most 10, every nonzero square is below 2^-150 (rounds to 0) when
\* e <= FloatUnderflowExp, above 2^128 (rounds to +inf) when
\* e >= FloatOverflowExp, and in the normal range in between; the model uses
\* no exponent strictly between a limit and the normal range
FloatUnderflowExp == -80
FloatOverflowExp == 80

\* the largest component, in tenths, of the reference vectors explored
MaxBe == 5

\* HomeLocation.Be: the stored magnetic reference vectors the edits choose from
BeValues == {<<0, 0, 0, 0>>, <<3, 4, 0, 0>>}

\* GPSPosition samples <<Satellites, PDOP in tenths>>, at the gate's edges
GPSSamples == {<<7, 34>>, <<6, 34>>, <<7, 35>>}

\* what the request's stack slot can hold where the code does not write it
StackValues == {"zero", "junk"}

VARIABLES
    pc,                                   \* the blocking call the task is in
    alarm,                                \* SYSTEMALARMS_ALARM_AHRSCOMMS
    AhrsStatus,                           \* the AhrsStatus object
    errors,                               \* update_errors ... algorithm_errors
    GPSGoodUpdates,
    AHRSSettingsIsUpdatedFlag,
    BaroAltitudeIsUpdatedFlag,
    GPSPositionIsUpdatedFlag,
    HomeLocationIsUpdatedFlag,
    AHRSCalibrationIsUpdatedFlag,
    AHRSCalibrationIsLocallyUpdateFlag,
    settings,                             \* the task's snapshot of AHRSSettings
    AHRSSettings,                         \* the AHRSSettings object
    HomeLocation,                         \* the HomeLocation object
    AHRSCalibration,                      \* the AHRSCalibration object
    GPSPosition,                          \* the GPSPosition object
    req,                                  \* the request being exchanged
    ahrs,                                 \* what the coprocessor last accepted
    selfPending,                          \* write-back notifications not yet delivered
    result,                               \* what the last transport call returned
    rsp,                                  \* the response the task holds
    published,                            \* what a failure branch passed to AhrsStatusSet
    backoff,                              \* parity of the 100 ms waits of the resync loop
    AttitudeActual,                       \* the AttitudeActual object
    edited,                               \* history: the domains an external writer
                                          \* edited since their last successful push
    passedSinceReset,                     \* history: a gate-passing fix was processed
    arrived                               \* history: the domain of the push in flight
                                          \* was edited since the push was issued
                                          \* since the last gate-failing fix and the
                                          \* last entry to the resync loop

vars == <<pc, alarm, AhrsStatus, errors, GPSGoodUpdates,
          AHRSSettingsIsUpdatedFlag, BaroAltitudeIsUpdatedFlag,
          GPSPositionIsUpdatedFlag, HomeLocationIsUpdatedFlag,
          AHRSCalibrationIsUpdatedFlag, AHRSCalibrationIsLocallyUpdateFlag,
          settings, AHRSSettings, HomeLocation, AHRSCalibration, GPSPosition,
          req, ahrs, selfPending, result, rsp, published, backoff,
          AttitudeActual, edited,
          passedSinceReset, arrived>>

\* the variables only the callbacks and the external writers change
envVars == <<AHRSSettings, HomeLocation, AHRSCalibration, GPSPosition>>

(***************************************************************************)
(* Values                                                                  *)
(***************************************************************************)
NoErrors == [c \in Categories |-> 0]

SettingsValues == [UpdateRaw : BOOLEAN, UpdateFiltered : BOOLEAN]

\* an edit of the magnetic reference
HomeBeEdits == {[HomeLocation EXCEPT !.Be = b] : b \in BeValues}

\* an edit of the Set and Indoor fields
HomeSetEdits == {[HomeLocation EXCEPT !.Set = s, !.Indoor = i] : s, i \in BOOLEAN}

\* the calibration record: the mode and the terms an external writer edits
\* (one abstract value for the bias and scale vectors); the values of the
\* variance vectors, which update_calibration overwrites, are not tracked
CalibrationValues == [measure_var : Modes, bias : {0, 1}]

\* the response to SetGetCalibration: the echoed mode; the task tells only
\* AHRS_ECHO from the others
CalibrationResponses == [measure_var : {"SET", "ECHO"}]

Failures == errors["update"] + errors["attituderaw"] + errors["home"]
              + errors["calibration"] + errors["algorithm"]

\* the largest value of a uint16_t
CounterMax == (2 ^ CounterWidth) - 1

\* the failures explored: those within the budget, and the one that finds its
\* counter at the largest value
MayFail(c) == Failures < MaxErrors \/ errors[c] = CounterMax

\* counter++ on a uint16_t
Incr(c) == [errors EXCEPT ![c] = (@ + 1) % (2 ^ CounterWidth)]

ISqrt(n) == CHOOSE r \in 0..n : r * r <= n /\ (r + 1) * (r + 1) > n

(***************************************************************************)
(* The request builders                                                    *)
(***************************************************************************)
\* the reference vectors whose length and whose quotients by it are exact in
\* tenths, at a tiny, an ordinary and a huge magnitude
NorthInputs ==
    {<<x, y, z, e>> : x, y, z \in -MaxBe..MaxBe,
                      e \in {FloatUnderflowExp, 0, FloatOverflowExp}}
    \cap {v \in Seq(Int) :
            LET n == v[1] * v[1] + v[2] * v[2] + v[3] * v[3]
                len == ISqrt(n)
            IN  n = 0 \/ (len * len = n /\ \A i \in 1..3 : (v[i] * 10) % len = 0)}

\* x / len for a nonzero x and, in the second case, a zero x
FloatDivZero(x) == IF x = 0 THEN "nan" ELSE IF x > 0 THEN "inf" ELSE "-inf"

\* load_magnetic_north: the pushed vector in tenths, (1,0,0) for the zero
\* vector.  The sum of the squares is 0 when they underflow (len = 0: the
\* quotients are not finite) and +inf when they overflow (len = +inf: the
\* quotients are 0)
load_magnetic_north(Be) ==
    IF Be[1] = 0 /\ Be[2] = 0 /\ Be[3] = 0
    THEN [finite |-> TRUE, Be |-> <<10, 0, 0>>]
    ELSE IF Be[4] <= FloatUnderflowExp
    THEN [finite |-> FALSE,
          Be |-> <<FloatDivZero(Be[1]), FloatDivZero(Be[2]), FloatDivZero(Be[3])>>]
    ELSE IF Be[4] >= FloatOverflowExp
    THEN [finite |-> TRUE, Be |-> <<0, 0, 0>>]
    ELSE LET len == ISqrt(Be[1] * Be[1] + Be[2] * Be[2] + Be[3] * Be[3])
         IN  [finite |-> TRUE,
              Be |-> <<(Be[1] * 10) \div len, (Be[2] * 10) \div len,
                       (Be[3] * 10) \div len>>]

\* load_calibration: the record as it is when the request is built
load_calibration(data) ==
    [measure_var |-> IF data.measure_var = "SET" THEN "SET"
                     ELSE IF data.measure_var = "MEASURE" THEN "MEASURE"
                     ELSE "ECHO",
     bias |-> data.bias]

\* load_gps_position with the ramp one fix short: "GPSGoodUpdates < 29"
load_gps_position_OffByOne(u) ==
    IF ~HomeLocation.Set \/ HomeLocation.Indoor
    THEN [gps  |-> [updated |-> TRUE, quality |-> -1, NED |-> "zero", speed |-> "zero"],
          good |-> GPSGoodUpdates]
    ELSE IF GPSPosition[1] >= MinSatellites /\ GPSPosition[2] < MaxPDOP10
    THEN IF GPSGoodUpdates < GPSGoodThreshold - 1
         THEN [gps  |-> [updated |-> TRUE, quality |-> 0, NED |-> u, speed |-> u],
               good |-> GPSGoodUpdates + 1]
         ELSE [gps  |-> [updated |-> TRUE, quality |-> 1, NED |-> "computed", speed |-> "data"],
               good |-> GPSGoodUpdates]
    ELSE [gps  |-> [updated |-> TRUE, quality |-> 0, NED |-> u, speed |-> u],
          good |-> 0]

\* load_gps_position with the reset on a gate-failing fix left out
load_gps_position_NoReset(u) ==
    IF ~HomeLocation.Set \/ HomeLocation.Indoor
    THEN [gps  |-> [updated |-> TRUE, quality |-> -1, NED |-> "zero", speed |-> "zero"],
          good |-> GPSGoodUpdates]
    ELSE IF GPSPosition[1] >= MinSatellites /\ GPSPosition[2] < MaxPDOP10
    THEN IF GPSGoodUpdates < GPSGoodThreshold
         THEN [gps  |-> [updated |-> TRUE, quality |-> 0, NED |-> u, speed |-> u],
               good |-> GPSGoodUpdates + 1]
         ELSE [gps  |-> [updated |-> TRUE, quality |-> 1, NED |-> "computed", speed |-> "data"],
               good |-> GPSGoodUpdates]
    ELSE [gps  |-> [updated |-> TRUE, quality |-> 0, NED |-> u, speed |-> u],
          good |-> GPSGoodUpdates]

\* load_gps_position counting every gate-passing fix
load_gps_position_NoCeiling(u) ==
    IF ~HomeLocation.Set \/ HomeLocation.Indoor
    THEN [gps  |-> [updated |-> TRUE, quality |-> -1, NED |-> "zero", speed |-> "zero"],
          good |-> GPSGoodUpdates]
    ELSE IF GPSPosition[1] >= MinSatellites /\ GPSPosition[2] < MaxPDOP10
    THEN IF GPSGoodUpdates < GPSGoodThreshold
         THEN [gps  |-> [updated |-> TRUE, quality |-> 0, NED |-> u, speed |-> u],
               good |-> GPSGoodUpdates + 1]
         ELSE [gps  |-> [updated |-> TRUE, quality |-> 1, NED |-> "computed", speed |-> "data"],
               good |-> GPSGoodUpdates + 1]
    ELSE [gps  |-> [updated |-> TRUE, quality |-> 0, NED |-> u, speed |-> u],
          good |-> 0]

\* load_gps_position testing home.Set alone
load_gps_position_IndoorIgnored(u) ==
    IF ~HomeLocation.Set
    THEN [gps  |-> [updated |-> TRUE, quality |-> -1, NED |-> "zero", speed |-> "zero"],
          good |-> GPSGoodUpdates]
    ELSE IF GPSPosition[1] >= MinSatellites /\ GPSPosition[2] < MaxPDOP10
    THEN IF GPSGoodUpdates < GPSGoodThreshold
         THEN [gps  |-> [updated |-> TRUE, quality |-> 0, NED |-> u, speed |-> u],
               good |-> GPSGoodUpdates + 1]
         ELSE [gps  |-> [updated |-> TRUE, quality |-> 1, NED |-> "computed", speed |-> "data"],
               good |-> GPSGoodUpdates]
    ELSE [gps  |-> [updated |-> TRUE, quality |-> 0, NED |-> u, speed |-> u],
          good |-> 0]

\* load_gps_position; u is what the request's stack slot held before: the
\* ramping branches write only gps.updated and gps.quality
load_gps_position(u) ==
    IF ~HomeLocation.Set \/ HomeLocation.Indoor
    THEN [gps  |-> [updated |-> TRUE, quality |-> -1, NED |-> "zero", speed |-> "zero"],
          good |-> GPSGoodUpdates]
    ELSE IF GPSPosition[1] >= MinSatellites /\ GPSPosition[2] < MaxPDOP10
    THEN IF GPSGoodUpdates < GPSGoodThreshold
         THEN [gps  |-> [updated |-> TRUE, quality |-> 0, NED |-> u, speed |-> u],
               good |-> GPSGoodUpdates + 1]
         ELSE [gps  |-> [updated |-> TRUE, quality |-> 1, NED |-> "computed", speed |-> "data"],
               good |-> GPSGoodUpdates]
    ELSE [gps  |-> [updated |-> TRUE, quality |-> 0, NED |-> u, speed |-> u],
          good |-> 0]

(***************************************************************************)
(* The response parser                                                     *)
(***************************************************************************)
\* angles are counted in units of 2^-16 degree, half the spacing of the
\* single-precision numbers between 256 and 512
YawScale == 65536

\* the yaw angles (rpy[2] of Quaternion2RPY, between -180 and 180 degrees)
\* of the attitudes the coprocessor reports
YawSamples == {-180 * YawScale, -90 * YawScale, -2, -1, 0, 1,
               90 * YawScale, 180 * YawScale}

YawQuiet == {0}

\* a sum r >= 0 rounded to single precision, to nearest and ties to even:
\* below 256 degrees every multiple of the unit is a float, from 256 on
\* only the even multiples are, and the multiples of 4 have an even mantissa
FloatRound(r) ==
    IF r < 256 * YawScale \/ r % 2 = 0 THEN r
    ELSE IF (r + 1) % 4 = 0 THEN r + 1 ELSE r - 1

\* process_update, lines 455-468: the quaternion (stood for by its yaw
\* angle) is copied and "if(data.Yaw < 0) data.Yaw += 360;"
process_update(y) ==
    [q |-> y, Yaw |-> IF y < 0 THEN FloatRound(y + 360 * YawScale) ELSE y]

(***************************************************************************)
(* The streaming period, from one step to the next blocking call.  Each    *)
(* stage yields the call the task blocks in, the request it sends and the  *)
(* good-fix counter; s is the period's settings snapshot.                  *)
(***************************************************************************)
\* lines 280-299: the combined update, else the periodic wait
UpdStage(s, u) ==
    IF s.UpdateFiltered
    THEN LET g == IF GPSPositionIsUpdatedFlag
                  THEN load_gps_position(u)
                  ELSE [gps |-> [updated |-> FALSE], good |-> GPSGoodUpdates]
         IN  [pc   |-> "update",
              req  |-> [kind |-> "update",
                        barometer |-> BaroAltitudeIsUpdatedFlag,
                        gps |-> g.gps],
              good |-> g.good]
    ELSE [pc |-> "delay", req |-> [kind |-> "none"], good |-> GPSGoodUpdates]

\* the raw-attitude step reading the settings object in place of the snapshot
RawStage_LiveSettings(s, u) ==
    IF AHRSSettings.UpdateRaw
    THEN [pc |-> "attituderaw", req |-> [kind |-> "attituderaw"], good |-> GPSGoodUpdates]
    ELSE UpdStage(s, u)

\* lines 269-271
RawStage(s, u) ==
    IF s.UpdateRaw
    THEN [pc |-> "attituderaw", req |-> [kind |-> "attituderaw"], good |-> GPSGoodUpdates]
    ELSE UpdStage(s, u)

\* the algorithm step pushing in every period
AlgStage_AlwaysPush(s, u) ==
    [pc |-> "algorithm", req |-> [kind |-> "algorithm"], good |-> GPSGoodUpdates]

\* lines 245-254
AlgStage(s, u) ==
    IF AHRSSettingsIsUpdatedFlag \/ ~AhrsStatus.AlgorithmSet
    THEN [pc |-> "algorithm", req |-> [kind |-> "algorithm"], good |-> GPSGoodUpdates]
    ELSE RawStage(s, u)

\* lines 222-228
CalStage(s, u) ==
    IF AHRSCalibrationIsUpdatedFlag \/ ~AhrsStatus.CalibrationSet
    THEN [pc   |-> "calibration",
          req  |-> [kind |-> "calibration",
                    calibration |-> load_calibration(AHRSCalibration)],
          good |-> GPSGoodUpdates]
    ELSE AlgStage(s, u)

\* the home step pushing in every period
HomeStage_AlwaysPush(s, u) ==
    [pc   |-> "north",
     req  |-> [kind |-> "north", Be |-> load_magnetic_north(HomeLocation.Be)],
     good |-> GPSGoodUpdates]

\* lines 203-208
HomeStage(s, u) ==
    IF HomeLocationIsUpdatedFlag \/ ~AhrsStatus.HomeSet
    THEN [pc   |-> "north",
          req  |-> [kind |-> "north", Be |-> load_magnetic_north(HomeLocation.Be)],
          good |-> GPSGoodUpdates]
    ELSE CalStage(s, u)

\* the task runs on to the blocking call of stage k
Continue(k) ==
    /\ pc' = k.pc
    /\ req' = k.req
    /\ GPSGoodUpdates' = k.good
    /\ passedSinceReset' = IF k.pc = "update" /\ k.req.gps.updated
                                /\ k.req.gps.quality # -1
                            THEN k.good # 0
                            ELSE passedSinceReset
    /\ arrived' = FALSE

\* the top of the outer loop with AlgorithmSet left as it is
LoopTop_AlgorithmSetKept(data) ==
    /\ alarm' = "CRITICAL"
    /\ AhrsStatus' = [data EXCEPT !.HomeSet = FALSE, !.CalibrationSet = FALSE]
    /\ pc' = "resync"
    /\ req' = [kind |-> "resync"]
    /\ passedSinceReset' = FALSE
    /\ arrived' = FALSE
    /\ UNCHANGED GPSGoodUpdates

\* the top of the outer loop without the AlarmsSet call
LoopTop_AlarmNotRaised(data) ==
    /\ UNCHANGED alarm
    /\ AhrsStatus' = [data EXCEPT !.HomeSet = FALSE,
                                  !.CalibrationSet = FALSE,
                                  !.AlgorithmSet = FALSE]
    /\ pc' = "resync"
    /\ req' = [kind |-> "resync"]
    /\ passedSinceReset' = FALSE
    /\ arrived' = FALSE
    /\ UNCHANGED GPSGoodUpdates

\* the top of the outer loop with the good-fix counter set to 0
LoopTop_CounterReset(data) ==
    /\ alarm' = "CRITICAL"
    /\ AhrsStatus' = [data EXCEPT !.HomeSet = FALSE,
                                  !.CalibrationSet = FALSE,
                                  !.AlgorithmSet = FALSE]
    /\ pc' = "resync"
    /\ req' = [kind |-> "resync"]
    /\ passedSinceReset' = FALSE
    /\ arrived' = FALSE
    /\ GPSGoodUpdates' = 0

\* lines 168-178: the top of the outer loop, up to the resync call
LoopTop(data) ==
    /\ alarm' = "CRITICAL"
    /\ AhrsStatus' = [data EXCEPT !.HomeSet = FALSE,
                                  !.CalibrationSet = FALSE,
                                  !.AlgorithmSet = FALSE]
    /\ pc' = "resync"
    /\ req' = [kind |-> "resync"]
    /\ passedSinceReset' = FALSE
    /\ arrived' = FALSE
    /\ UNCHANGED GPSGoodUpdates

\* a call returns r; but for SetGetCalibration the model keeps no response
Returned(r) ==
    result' = r /\ rsp' = [kind |-> "none"] /\ published' = {} /\ backoff' = FALSE

\* lines 214-216, 237-238, 259-260: a push fails and its branch writes the
\* status record data before the 'break'
PushFailed(data) ==
    /\ result' = "FAIL" /\ rsp' = [kind |-> "none"] /\ published' = {data}
    /\ backoff' = FALSE

flagVars == <<AHRSSettingsIsUpdatedFlag, BaroAltitudeIsUpdatedFlag,
              GPSPositionIsUpdatedFlag, HomeLocationIsUpdatedFlag,
              AHRSCalibrationIsUpdatedFlag, AHRSCalibrationIsLocallyUpdateFlag>>

(***************************************************************************)
(* Init: AHRSCommsInitialize has run and the task has reached its first    *)
(* resync call (lines 161-178).                                            *)
(***************************************************************************)
Init ==
    /\ pc = "resync"
    /\ alarm = "CRITICAL"
    /\ AhrsStatus = [HomeSet |-> FALSE, CalibrationSet |-> FALSE,
                     AlgorithmSet |-> FALSE, CommErrors |-> NoErrors]
    /\ errors = NoErrors
    /\ GPSGoodUpdates = 0
    /\ AHRSSettingsIsUpdatedFlag = FALSE
    /\ BaroAltitudeIsUpdatedFlag = FALSE
    /\ GPSPositionIsUpdatedFlag = FALSE
    /\ HomeLocationIsUpdatedFlag = FALSE
    /\ AHRSCalibrationIsUpdatedFlag = FALSE
    /\ AHRSCalibrationIsLocallyUpdateFlag = FALSE
    /\ AHRSSettings \in SettingsValues
    /\ settings = AHRSSettings
    /\ HomeLocation = [Set |-> FALSE, Indoor |-> FALSE, Be |-> <<0, 0, 0, 0>>]
    /\ AHRSCalibration = [measure_var |-> "SET", bias |-> 0]
    /\ GPSPosition = <<0, 0>>
    /\ req = [kind |-> "resync"]
    /\ ahrs = [north |-> [finite |-> TRUE, Be |-> <<>>],
               calibration |-> [measure_var |-> "NONE"]]
    /\ selfPending = 0
    /\ result = "NONE"
    /\ rsp = [kind |-> "none"]
    /\ published = {}
    /\ backoff = FALSE
    /\ AttitudeActual = [q |-> 0, Yaw |-> 0]
    /\ edited = {}
    /\ passedSinceReset = FALSE
    /\ arrived = FALSE

(***************************************************************************)
(* The session task, ahrscommsTask                                         *)
(***************************************************************************)
\* line 178: PIOS_OPAHRS_resync() returns OK; the task asks for the serial
ResyncOk ==
    /\ pc = "resync"
    /\ Returned("OK")
    /\ pc' = "serial"
    /\ req' = [kind |-> "serial"]
    /\ UNCHANGED <<AttitudeActual, passedSinceReset, arrived, edited, alarm, AhrsStatus, errors, GPSGoodUpdates, flagVars, settings,
                   envVars, ahrs, selfPending>>

\* a failed resync attempt counted as an update error
ResyncFail_Counted ==
    /\ pc = "resync"
    /\ MayFail("update")
    /\ Returned("FAIL")
    /\ errors' = Incr("update")
    /\ UNCHANGED <<AttitudeActual, passedSinceReset, arrived, edited, pc, req, alarm, AhrsStatus, GPSGoodUpdates,
                   flagVars, settings, envVars, ahrs, selfPending>>

\* lines 178-180: the resync fails; wait 100 ms and try again
ResyncFail ==
    /\ pc = "resync"
    /\ result' = "FAIL" /\ rsp' = [kind |-> "none"] /\ published' = {}
    /\ backoff' = ~backoff
    /\ UNCHANGED <<AttitudeActual, passedSinceReset, arrived, edited, pc, req, alarm, AhrsStatus, errors, GPSGoodUpdates, flagVars,
                   settings, envVars, ahrs, selfPending>>

\* a successful identity exchange without the AlarmsClear call
GetSerialOk_AlarmKept ==
    /\ pc = "serial"
    /\ Returned("OK")
    /\ AhrsStatus' = [AhrsStatus EXCEPT !.CommErrors = errors]
    /\ settings' = AHRSSettings
    /\ \E u \in StackValues : Continue(HomeStage(AHRSSettings, u))
    /\ UNCHANGED <<AttitudeActual, alarm, edited, errors, flagVars, envVars, ahrs,
                   selfPending>>

\* lines 185-208: the identity exchange succeeds: update_ahrs_status, the
\* alarm is cleared and the first period starts
GetSerialOk ==
    /\ pc = "serial"
    /\ Returned("OK")
    /\ AhrsStatus' = [AhrsStatus EXCEPT !.CommErrors = errors]
    /\ alarm' = "OK"
    /\ settings' = AHRSSettings
    /\ \E u \in StackValues : Continue(HomeStage(AHRSSettings, u))
    /\ UNCHANGED <<AttitudeActual, edited, errors, flagVars, envVars, ahrs, selfPending>>

\* a failed identity exchange counted as an update error
GetSerialFail_Counted ==
    /\ pc = "serial"
    /\ MayFail("update")
    /\ Returned("FAIL")
    /\ errors' = Incr("update")
    /\ LoopTop(AhrsStatus)
    /\ UNCHANGED <<AttitudeActual, edited, flagVars, settings, envVars, ahrs, selfPending>>

\* a failed identity exchange that falls through to the streaming loop
GetSerialFail_EntersStreaming ==
    /\ pc = "serial"
    /\ Returned("FAIL")
    /\ alarm' = "OK"
    /\ settings' = AHRSSettings
    /\ \E u \in StackValues : Continue(HomeStage(AHRSSettings, u))
    /\ UNCHANGED <<AttitudeActual, AhrsStatus, edited, errors, flagVars, envVars, ahrs,
                   selfPending>>

\* lines 187-190: the identity exchange fails: continue the outer loop
GetSerialFail ==
    /\ pc = "serial"
    /\ Returned("FAIL")
    /\ LoopTop(AhrsStatus)
    /\ UNCHANGED <<AttitudeActual, edited, errors, flagVars, settings, envVars, ahrs, selfPending>>

\* a successful home push that leaves the dirty flag set
SetMagNorthOk_FlagKept ==
    /\ pc = "north"
    /\ Returned("OK")
    /\ AhrsStatus' = [AhrsStatus EXCEPT !.HomeSet = TRUE]
    /\ ahrs' = [ahrs EXCEPT !.north = req.Be]
    /\ \E u \in StackValues : Continue(CalStage(settings, u))
    /\ edited' = edited \ {"home"}
    /\ UNCHANGED <<AttitudeActual, alarm, errors, flagVars, settings, envVars, selfPending>>

\* lines 208-211
SetMagNorthOk ==
    /\ pc = "north"
    /\ Returned("OK")
    /\ HomeLocationIsUpdatedFlag' = FALSE
    /\ AhrsStatus' = [AhrsStatus EXCEPT !.HomeSet = TRUE]
    /\ ahrs' = [ahrs EXCEPT !.north = req.Be]
    /\ \E u \in StackValues : Continue(CalStage(settings, u))
    /\ edited' = edited \ {"home"}
    /\ UNCHANGED <<AttitudeActual, alarm, errors, AHRSSettingsIsUpdatedFlag, BaroAltitudeIsUpdatedFlag,
                   GPSPositionIsUpdatedFlag, AHRSCalibrationIsUpdatedFlag,
                   AHRSCalibrationIsLocallyUpdateFlag, settings, envVars, selfPending>>

\* a failed home push whose branch writes all three synced booleans false
SetMagNorthFail_ClearsAll ==
    /\ pc = "north"
    /\ MayFail("home")
    /\ PushFailed([AhrsStatus EXCEPT !.HomeSet = FALSE,
                                     !.CalibrationSet = FALSE,
                                     !.AlgorithmSet = FALSE])
    /\ errors' = Incr("home")
    /\ LoopTop([AhrsStatus EXCEPT !.HomeSet = FALSE])
    /\ UNCHANGED <<AttitudeActual, edited, flagVars, settings, envVars, ahrs, selfPending>>

\* lines 212-218
SetMagNorthFail ==
    /\ pc = "north"
    /\ MayFail("home")
    /\ PushFailed([AhrsStatus EXCEPT !.HomeSet = FALSE])
    /\ errors' = Incr("home")
    /\ LoopTop([AhrsStatus EXCEPT !.HomeSet = FALSE])
    /\ UNCHANGED <<AttitudeActual, edited, flagVars, settings, envVars, ahrs, selfPending>>

\* the calibration push with CalibrationSet cleared on an echoed ECHO
SetGetCalibrationOk_EchoClears ==
    /\ pc = "calibration"
    /\ selfPending < MaxPending
    /\ result' = "OK"
    /\ \E r \in CalibrationResponses :
          /\ AHRSCalibrationIsLocallyUpdateFlag' = TRUE
          /\ selfPending' = selfPending + 1
          /\ AHRSCalibrationIsUpdatedFlag' = FALSE
          /\ AhrsStatus' = [AhrsStatus EXCEPT
                               !.CalibrationSet = (r.measure_var # "ECHO")]
          /\ rsp' = [kind |-> "calibration", measure_var |-> r.measure_var]
          /\ published' = {}
          /\ backoff' = FALSE
    /\ ahrs' = [ahrs EXCEPT !.calibration = req.calibration]
    /\ \E u \in StackValues : Continue(AlgStage(settings, u))
    /\ edited' = edited \ {"calibration"}
    /\ UNCHANGED <<AttitudeActual, alarm, errors, AHRSSettingsIsUpdatedFlag, BaroAltitudeIsUpdatedFlag,
                   GPSPositionIsUpdatedFlag, HomeLocationIsUpdatedFlag, settings,
                   envVars>>

\* lines 228-233 and update_calibration (356-373): the echoed variances are
\* written back to the record, which queues a change notification; the
\* coprocessor keeps the calibration sent and echoes a mode
SetGetCalibrationOk ==
    /\ pc = "calibration"
    /\ selfPending < MaxPending
    /\ result' = "OK"
    /\ \E r \in CalibrationResponses :
          /\ AHRSCalibrationIsLocallyUpdateFlag' = TRUE
          /\ selfPending' = selfPending + 1
          /\ AHRSCalibrationIsUpdatedFlag' = FALSE
          /\ AhrsStatus' = IF r.measure_var # "ECHO"
                           THEN [AhrsStatus EXCEPT !.CalibrationSet = TRUE]
                           ELSE AhrsStatus
          /\ rsp' = [kind |-> "calibration", measure_var |-> r.measure_var]
          /\ published' = {}
          /\ backoff' = FALSE
    /\ ahrs' = [ahrs EXCEPT !.calibration = req.calibration]
    /\ \E u \in StackValues : Continue(AlgStage(settings, u))
    /\ edited' = edited \ {"calibration"}
    /\ UNCHANGED <<AttitudeActual, alarm, errors, AHRSSettingsIsUpdatedFlag, BaroAltitudeIsUpdatedFlag,
                   GPSPositionIsUpdatedFlag, HomeLocationIsUpdatedFlag, settings,
                   envVars>>

\* a failed calibration push that clears the dirty flag all the same
SetGetCalibrationFail_ClearsFlag ==
    /\ pc = "calibration"
    /\ MayFail("calibration")
    /\ PushFailed([AhrsStatus EXCEPT !.CalibrationSet = FALSE])
    /\ errors' = Incr("calibration")
    /\ LoopTop([AhrsStatus EXCEPT !.CalibrationSet = FALSE])
    /\ AHRSCalibrationIsUpdatedFlag' = FALSE
    /\ UNCHANGED <<AttitudeActual, edited, AHRSSettingsIsUpdatedFlag,
                   BaroAltitudeIsUpdatedFlag, GPSPositionIsUpdatedFlag,
                   HomeLocationIsUpdatedFlag, AHRSCalibrationIsLocallyUpdateFlag,
                   settings, envVars, ahrs, selfPending>>

\* lines 235-241
SetGetCalibrationFail ==
    /\ pc = "calibration"
    /\ MayFail("calibration")
    /\ PushFailed([AhrsStatus EXCEPT !.CalibrationSet = FALSE])
    /\ errors' = Incr("calibration")
    /\ LoopTop([AhrsStatus EXCEPT !.CalibrationSet = FALSE])
    /\ UNCHANGED <<AttitudeActual, edited, flagVars, settings, envVars, ahrs, selfPending>>

\* lines 254-256: AHRSSettingsIsUpdatedFlag is left as it is
SetAlgorithmOk ==
    /\ pc = "algorithm"
    /\ Returned("OK")
    /\ AhrsStatus' = [AhrsStatus EXCEPT !.AlgorithmSet = TRUE]
    /\ \E u \in StackValues : Continue(RawStage(settings, u))
    /\ edited' = edited \ {"algorithm"}
    /\ UNCHANGED <<AttitudeActual, alarm, errors, flagVars, settings, envVars, ahrs, selfPending>>

\* a failed algorithm push without the 'break': the period runs on
SetAlgorithmFail_RunsOn ==
    /\ pc = "algorithm"
    /\ MayFail("algorithm")
    /\ Returned("FAIL")
    /\ errors' = Incr("algorithm")
    /\ AhrsStatus' = [AhrsStatus EXCEPT !.AlgorithmSet = FALSE]
    /\ \E u \in StackValues : Continue(RawStage(settings, u))
    /\ UNCHANGED <<AttitudeActual, alarm, edited, flagVars, settings, envVars, ahrs,
                   selfPending>>

\* lines 257-263
SetAlgorithmFail ==
    /\ pc = "algorithm"
    /\ MayFail("algorithm")
    /\ PushFailed([AhrsStatus EXCEPT !.AlgorithmSet = FALSE])
    /\ errors' = Incr("algorithm")
    /\ LoopTop([AhrsStatus EXCEPT !.AlgorithmSet = FALSE])
    /\ UNCHANGED <<AttitudeActual, edited, flagVars, settings, envVars, ahrs, selfPending>>

\* lines 271-272
GetAttitudeRawOk ==
    /\ pc = "attituderaw"
    /\ Returned("OK")
    /\ \E u \in StackValues : Continue(UpdStage(settings, u))
    /\ UNCHANGED <<AttitudeActual, edited, alarm, AhrsStatus, errors, flagVars, settings, envVars, ahrs,
                   selfPending>>

\* lines 273-277
GetAttitudeRawFail ==
    /\ pc = "attituderaw"
    /\ MayFail("attituderaw")
    /\ Returned("FAIL")
    /\ errors' = Incr("attituderaw")
    /\ LoopTop(AhrsStatus)
    /\ UNCHANGED <<AttitudeActual, edited, flagVars, settings, envVars, ahrs, selfPending>>

\* the update's success branch clearing both sample flags
SetGetUpdateOkWith_ClearsBoth(Y) ==
    /\ pc = "update"
    /\ Returned("OK")
    /\ BaroAltitudeIsUpdatedFlag' = FALSE
    /\ GPSPositionIsUpdatedFlag' = FALSE
    /\ \E y \in Y : AttitudeActual' = process_update(y)
    /\ pc' = "delay"
    /\ UNCHANGED <<passedSinceReset, arrived, edited, req, alarm, AhrsStatus, errors, GPSGoodUpdates,
                   AHRSSettingsIsUpdatedFlag, HomeLocationIsUpdatedFlag,
                   AHRSCalibrationIsUpdatedFlag, AHRSCalibrationIsLocallyUpdateFlag,
                   settings, envVars, ahrs, selfPending>>

\* lines 299-304 and 313, with process_update (449-487): the flags of the
\* samples sent are cleared, the attitude is published and the task waits
\* for the next period; the response's yaw is one of Y
SetGetUpdateOkWith(Y) ==
    /\ pc = "update"
    /\ Returned("OK")
    /\ BaroAltitudeIsUpdatedFlag' = IF req.barometer THEN FALSE
                                    ELSE BaroAltitudeIsUpdatedFlag
    /\ GPSPositionIsUpdatedFlag' = IF req.gps.updated THEN FALSE
                                   ELSE GPSPositionIsUpdatedFlag
    /\ \E y \in Y : AttitudeActual' = process_update(y)
    /\ pc' = "delay"
    /\ UNCHANGED <<passedSinceReset, arrived, edited, req, alarm, AhrsStatus, errors, GPSGoodUpdates,
                   AHRSSettingsIsUpdatedFlag, HomeLocationIsUpdatedFlag,
                   AHRSCalibrationIsUpdatedFlag, AHRSCalibrationIsLocallyUpdateFlag,
                   settings, envVars, ahrs, selfPending>>

\* the update exchange succeeds with the vehicle at rest, heading north
SetGetUpdateOk == SetGetUpdateOkWith(YawQuiet)

\* a failed update exchange that publishes the counters at once
SetGetUpdateFail_Publishes ==
    /\ pc = "update"
    /\ MayFail("update")
    /\ Returned("FAIL")
    /\ errors' = Incr("update")
    /\ LoopTop([AhrsStatus EXCEPT !.CommErrors = Incr("update")])
    /\ UNCHANGED <<AttitudeActual, edited, flagVars, settings, envVars, ahrs, selfPending>>

\* a failed update exchange counted in the raw-attitude counter
SetGetUpdateFail_WrongCounter ==
    /\ pc = "update"
    /\ MayFail("attituderaw")
    /\ Returned("FAIL")
    /\ errors' = Incr("attituderaw")
    /\ LoopTop(AhrsStatus)
    /\ UNCHANGED <<AttitudeActual, edited, flagVars, settings, envVars, ahrs, selfPending>>

\* lines 305-309
SetGetUpdateFail ==
    /\ pc = "update"
    /\ MayFail("update")
    /\ Returned("FAIL")
    /\ errors' = Incr("update")
    /\ LoopTop(AhrsStatus)
    /\ UNCHANGED <<AttitudeActual, edited, flagVars, settings, envVars, ahrs, selfPending>>

\* lines 313 and 196-208: the period ends; the next one takes a new snapshot
\* of the settings
DelayUntil ==
    /\ pc = "delay"
    /\ settings' = AHRSSettings
    /\ \E u \in StackValues : Continue(HomeStage(AHRSSettings, u))
    /\ UNCHANGED <<AttitudeActual, edited, alarm, AhrsStatus, errors, flagVars, envVars, ahrs, selfPending,
                   result, rsp,
                   published, backoff>>

(***************************************************************************)
(* The change notifications.  An external writer's Set and the callback it *)
(* triggers are one step; the task's own calibration write-back queues its *)
(* notification, which is delivered later.                                 *)
(***************************************************************************)
\* lines 92-95
AHRSSettingsUpdatedCb ==
    /\ AHRSSettings' \in SettingsValues
    /\ AHRSSettingsIsUpdatedFlag' = TRUE
    /\ edited' = edited \cup {"algorithm"}
    /\ arrived' = (arrived \/ pc = "algorithm")
    /\ UNCHANGED <<AttitudeActual, passedSinceReset, pc, alarm, AhrsStatus, errors, GPSGoodUpdates,
                   BaroAltitudeIsUpdatedFlag, GPSPositionIsUpdatedFlag,
                   HomeLocationIsUpdatedFlag, AHRSCalibrationIsUpdatedFlag,
                   AHRSCalibrationIsLocallyUpdateFlag, settings, HomeLocation,
                   AHRSCalibration, GPSPosition, req, ahrs, selfPending, result, rsp,
                   published, backoff>>

\* lines 98-101
BaroAltitudeUpdatedCb ==
    /\ BaroAltitudeIsUpdatedFlag' = TRUE
    /\ UNCHANGED <<AttitudeActual, passedSinceReset, arrived, edited, pc, alarm, AhrsStatus, errors, GPSGoodUpdates,
                   AHRSSettingsIsUpdatedFlag, GPSPositionIsUpdatedFlag,
                   HomeLocationIsUpdatedFlag, AHRSCalibrationIsUpdatedFlag,
                   AHRSCalibrationIsLocallyUpdateFlag, settings, envVars, req, ahrs,
                   selfPending, result, rsp,
                   published, backoff>>

\* lines 104-107
GPSPositionUpdatedCb ==
    /\ GPSPosition' \in GPSSamples
    /\ GPSPositionIsUpdatedFlag' = TRUE
    /\ UNCHANGED <<AttitudeActual, passedSinceReset, arrived, edited, pc, alarm, AhrsStatus, errors, GPSGoodUpdates,
                   AHRSSettingsIsUpdatedFlag, BaroAltitudeIsUpdatedFlag,
                   HomeLocationIsUpdatedFlag, AHRSCalibrationIsUpdatedFlag,
                   AHRSCalibrationIsLocallyUpdateFlag, settings, AHRSSettings,
                   HomeLocation, AHRSCalibration, req, ahrs, selfPending, result, rsp,
                   published, backoff>>

\* lines 110-113; the writer sets the record to one of S
HomeLocationUpdatedCb(S) ==
    /\ HomeLocation' \in S
    /\ HomeLocationIsUpdatedFlag' = TRUE
    /\ edited' = edited \cup {"home"}
    /\ arrived' = (arrived \/ pc = "north")
    /\ UNCHANGED <<AttitudeActual, passedSinceReset, pc, alarm, AhrsStatus, errors, GPSGoodUpdates,
                   AHRSSettingsIsUpdatedFlag, BaroAltitudeIsUpdatedFlag,
                   GPSPositionIsUpdatedFlag, AHRSCalibrationIsUpdatedFlag,
                   AHRSCalibrationIsLocallyUpdateFlag, settings, AHRSSettings,
                   AHRSCalibration, GPSPosition, req, ahrs, selfPending, result, rsp,
                   published, backoff>>

\* the callback raising the dirty flag while it consumes the suppression
AHRSCalibrationUpdatedCb_AlwaysDirties ==
    IF AHRSCalibrationIsLocallyUpdateFlag
    THEN /\ AHRSCalibrationIsLocallyUpdateFlag' = FALSE
         /\ AHRSCalibrationIsUpdatedFlag' = TRUE
    ELSE /\ AHRSCalibrationIsUpdatedFlag' = TRUE
         /\ UNCHANGED AHRSCalibrationIsLocallyUpdateFlag

\* lines 117-123: the callback itself
AHRSCalibrationUpdatedCb ==
    IF AHRSCalibrationIsLocallyUpdateFlag
    THEN /\ AHRSCalibrationIsLocallyUpdateFlag' = FALSE
         /\ UNCHANGED AHRSCalibrationIsUpdatedFlag
    ELSE /\ AHRSCalibrationIsUpdatedFlag' = TRUE
         /\ UNCHANGED AHRSCalibrationIsLocallyUpdateFlag

\* an external writer sets the calibration record
CalibrationEdited ==
    /\ AHRSCalibration' \in CalibrationValues
    /\ AHRSCalibrationUpdatedCb
    /\ edited' = edited \cup {"calibration"}
    /\ arrived' = (arrived \/ pc = "calibration")
    /\ UNCHANGED <<AttitudeActual, passedSinceReset, pc, alarm, AhrsStatus, errors, GPSGoodUpdates,
                   AHRSSettingsIsUpdatedFlag, BaroAltitudeIsUpdatedFlag,
                   GPSPositionIsUpdatedFlag, HomeLocationIsUpdatedFlag, settings,
                   AHRSSettings, HomeLocation, GPSPosition, req, ahrs, selfPending,
                   result, rsp,
                   published, backoff>>

\* the notification of the task's write-back (line 371) is delivered
CalibrationWrittenBack ==
    /\ selfPending > 0
    /\ selfPending' = selfPending - 1
    /\ AHRSCalibrationUpdatedCb
    /\ UNCHANGED <<AttitudeActual, passedSinceReset, arrived, edited, pc, alarm, AhrsStatus, errors, GPSGoodUpdates,
                   AHRSSettingsIsUpdatedFlag, BaroAltitudeIsUpdatedFlag,
                   GPSPositionIsUpdatedFlag, HomeLocationIsUpdatedFlag, settings,
                   envVars, req, ahrs, result, rsp,
                   published, backoff>>

\* the task's steps on a link whose streaming exchanges succeed
Session ==
    \/ ResyncOk \/ ResyncFail \/ GetSerialOk \/ GetSerialFail
    \/ SetMagNorthOk \/ SetGetCalibrationOk \/ SetAlgorithmOk
    \/ GetAttitudeRawOk \/ SetGetUpdateOk \/ DelayUntil

Task ==
    \/ Session
    \/ SetMagNorthFail \/ SetGetCalibrationFail \/ SetAlgorithmFail
    \/ GetAttitudeRawFail \/ SetGetUpdateFail

\* the session with its settings and magnetic reference edited
Next ==
    \/ Task
    \/ AHRSSettingsUpdatedCb
    \/ HomeLocationUpdatedCb(HomeBeEdits)
    \/ CalibrationWrittenBack

Spec == Init /\ [][Next]_vars

\* the session with its calibration record edited
NextCal ==
    \/ Task
    \/ CalibrationEdited
    \/ CalibrationWrittenBack

SpecCal == Init /\ [][NextCal]_vars

\* the session with GPS fixes arriving and the home reference set and unset,
\* on a link that fails in the resync, the identity and the update exchange
NextGps ==
    \/ Session
    \/ SetGetUpdateFail
    \/ GPSPositionUpdatedCb
    \/ HomeLocationUpdatedCb(HomeSetEdits)
    \/ CalibrationWrittenBack

SpecGps == Init /\ [][NextGps]_vars

\* the session with barometer and GPS samples arriving, indoors
NextUpd ==
    \/ Task
    \/ BaroAltitudeUpdatedCb
    \/ GPSPositionUpdatedCb
    \/ CalibrationWrittenBack

SpecUpd == Init /\ [][NextUpd]_vars

\* the session left to itself: every blocking call of the task returns in
\* the end, with success or failure, and the event dispatcher delivers the
\* notifications it holds
NextLive ==
    \/ Task
    \/ CalibrationWrittenBack

SpecLive ==
    Init /\ [][NextLive]_vars /\ WF_vars(Task) /\ WF_vars(CalibrationWrittenBack)

\* the session left to itself with raw and filtered mode on, on a link that
\* fails in the resync, the identity exchange and the calibration push,
\* while the magnetic reference and the calibration record are edited
InitSync == Init /\ AHRSSettings.UpdateRaw /\ AHRSSettings.UpdateFiltered

NextSync ==
    \/ Session
    \/ SetGetCalibrationFail
    \/ HomeLocationUpdatedCb(HomeBeEdits)
    \/ CalibrationEdited
    \/ CalibrationWrittenBack

SpecSync ==
    /\ InitSync /\ [][NextSync]_vars
    /\ WF_vars(Session \/ SetGetCalibrationFail) /\ WF_vars(CalibrationWrittenBack)

\* the session over a link on which no resync attempt succeeds
NextResyncFails ==
    \/ ResyncFail
    \/ AHRSSettingsUpdatedCb
    \/ HomeLocationUpdatedCb(HomeBeEdits)
    \/ BaroAltitudeUpdatedCb
    \/ GPSPositionUpdatedCb
    \/ CalibrationEdited

SpecResyncFails == Init /\ [][NextResyncFails]_vars

\* the session late in a long run: the task is back at the resync call after
\* the 65535th failed exchange of category c (the identity exchange before it
\* published the counters as they were), the coprocessor holds what the
\* earlier sessions pushed
InitWrap ==
    /\ pc = "resync"
    /\ alarm = "CRITICAL"
    /\ \E c \in Categories :
          /\ errors = [NoErrors EXCEPT ![c] = CounterMax]
          /\ AhrsStatus = [HomeSet |-> FALSE, CalibrationSet |-> FALSE,
                           AlgorithmSet |-> FALSE,
                           CommErrors |-> [NoErrors EXCEPT ![c] = CounterMax - 1]]
    /\ GPSGoodUpdates = 0
    /\ AHRSSettingsIsUpdatedFlag = FALSE
    /\ BaroAltitudeIsUpdatedFlag = FALSE
    /\ GPSPositionIsUpdatedFlag = FALSE
    /\ HomeLocationIsUpdatedFlag = FALSE
    /\ AHRSCalibrationIsUpdatedFlag = FALSE
    /\ AHRSCalibrationIsLocallyUpdateFlag = FALSE
    /\ AHRSSettings \in SettingsValues
    /\ settings = AHRSSettings
    /\ HomeLocation = [Set |-> FALSE, Indoor |-> FALSE, Be |-> <<0, 0, 0, 0>>]
    /\ AHRSCalibration = [measure_var |-> "SET", bias |-> 0]
    /\ GPSPosition = <<0, 0>>
    /\ req = [kind |-> "resync"]
    /\ ahrs = [north |-> load_magnetic_north(HomeLocation.Be),
               calibration |-> load_calibration(AHRSCalibration)]
    /\ selfPending = 0
    /\ result = "FAIL"
    /\ rsp = [kind |-> "none"]
    /\ published = {}
    /\ backoff = FALSE
    /\ AttitudeActual = [q |-> 0, Yaw |-> 0]
    /\ edited = {}
    /\ passedSinceReset = FALSE
    /\ arrived = FALSE

\* the session started with the magnetic reference at any of NorthInputs
InitNorth ==
    /\ pc = "resync"
    /\ alarm = "CRITICAL"
    /\ AhrsStatus = [HomeSet |-> FALSE, CalibrationSet |-> FALSE,
                     AlgorithmSet |-> FALSE, CommErrors |-> NoErrors]
    /\ errors = NoErrors
    /\ GPSGoodUpdates = 0
    /\ AHRSSettingsIsUpdatedFlag = FALSE
    /\ BaroAltitudeIsUpdatedFlag = FALSE
    /\ GPSPositionIsUpdatedFlag = FALSE
    /\ HomeLocationIsUpdatedFlag = FALSE
    /\ AHRSCalibrationIsUpdatedFlag = FALSE
    /\ AHRSCalibrationIsLocallyUpdateFlag = FALSE
    /\ AHRSSettings \in SettingsValues
    /\ settings = AHRSSettings
    /\ HomeLocation \in {[Set |-> FALSE, Indoor |-> FALSE, Be |-> b] : b \in NorthInputs}
    /\ AHRSCalibration = [measure_var |-> "SET", bias |-> 0]
    /\ GPSPosition = <<0, 0>>
    /\ req = [kind |-> "resync"]
    /\ ahrs = [north |-> [finite |-> TRUE, Be |-> <<>>],
               calibration |-> [measure_var |-> "NONE"]]
    /\ selfPending = 0
    /\ result = "NONE"
    /\ rsp = [kind |-> "none"]
    /\ published = {}
    /\ backoff = FALSE
    /\ AttitudeActual = [q |-> 0, Yaw |-> 0]
    /\ edited = {}
    /\ passedSinceReset = FALSE
    /\ arrived = FALSE

NextNorth ==
    \/ Session
    \/ CalibrationWrittenBack

SpecNorth == InitNorth /\ [][NextNorth]_vars

\* the session with the coprocessor reporting the attitudes of YawSamples
NextYaw ==
    \/ ResyncOk \/ GetSerialOk
    \/ SetMagNorthOk \/ SetGetCalibrationOk \/ SetAlgorithmOk
    \/ GetAttitudeRawOk \/ SetGetUpdateOkWith(YawSamples) \/ DelayUntil
    \/ AHRSSettingsUpdatedCb
    \/ CalibrationWrittenBack

SpecYaw == Init /\ [][NextYaw]_vars

NextWrap ==
    \/ Task
    \/ AHRSSettingsUpdatedCb
    \/ CalibrationWrittenBack

SpecWrap == InitWrap /\ [][NextWrap]_vars

(***************************************************************************)
(* The session states of the specification, read off the task's position   *)
(***************************************************************************)
SessionState ==
    IF pc = "resync" THEN "RESYNCING"
    ELSE IF pc = "serial" THEN "IDENTITY"
    ELSE "STREAMING"

\* the configuration domains with the call that pushes each
Domains == {"home", "calibration", "algorithm"}

PushCall(d) ==
    IF d = "home" THEN "north" ELSE IF d = "calibration" THEN "calibration" ELSE "algorithm"

\* the synced boolean of a domain in the status record
Synced(d) ==
    IF d = "home" THEN AhrsStatus.HomeSet
    ELSE IF d = "calibration" THEN AhrsStatus.CalibrationSet
    ELSE AhrsStatus.AlgorithmSet

\* the error counter a failed streaming call is counted in
CategoryOf(call) == IF call = "north" THEN "home" ELSE call

AllUnsynced(st) == ~st.HomeSet /\ ~st.CalibrationSet /\ ~st.AlgorithmSet

\* this step is the return of a transport call with a failure
FailStep == result' = "FAIL" /\ ~(pc = "resync" /\ result = "FAIL")

\* this step builds an update request that carries a GPS sample
BuildsGps == pc # "update" /\ pc' = "update" /\ req'.gps.updated

\* the sample is processed with home set and indoor off
Outdoor == HomeLocation.Set /\ ~HomeLocation.Indoor

\* the fix passes the quality gate as the specification states it
GatePassed == GPSPosition[1] >= 7 /\ GPSPosition[2] < 35

C2_UpdateFailure ==
    [][ /\ (pc = "update" /\ result' = "FAIL") =>
              /\ errors' = [errors EXCEPT !["update"] = (@ + 1) % 65536]
              /\ pc' = "resync"
        /\ (pc = "serial" /\ pc' \notin {"serial", "resync"}) =>
              AllUnsynced(AhrsStatus') ]_vars

\* streaming entered again after the update exchange failed
C2_Witness ==
    /\ pc = "north" /\ alarm = "OK" /\ errors["update"] = 1
    /\ AllUnsynced(AhrsStatus)

(***************************************************************************)
(* C3                                                                      *)
(***************************************************************************)
\* C3: on a link where every resync attempt fails the session is RESYNCING
\* in every state, the alarm is CRITICAL, the only call issued is the resync
\* and the five counters keep their initial value.
C3_ResyncNeverSucceeds ==
    /\ SessionState = "RESYNCING"
    /\ alarm = "CRITICAL"
    /\ req.kind = "resync"
    /\ errors = NoErrors

\* resync attempts have failed while configuration edits are waiting
C3_Witness ==
    result = "FAIL" /\ HomeLocationIsUpdatedFlag /\ AHRSCalibrationIsUpdatedFlag

(***************************************************************************)
(* C4                                                                      *)
(***************************************************************************)
\* C4: the alarm is CRITICAL exactly when the session is RESYNCING or
\* IDENTITY and cleared exactly when it is STREAMING; it goes from CRITICAL
\* to cleared only in the step in which the identity exchange succeeds.
C4_Alarm ==
    /\ [](alarm = (IF SessionState = "STREAMING" THEN "OK" ELSE "CRITICAL"))
    /\ [][(alarm = "CRITICAL" /\ alarm' = "OK") =>
             (pc = "serial" /\ result' = "OK")]_vars

\* the alarm cleared again in a session that had a streaming failure
C4_Witness ==
    alarm = "OK" /\ pc = "delay" /\ Failures > 0

(***************************************************************************)
(* C5                                                                      *)
(***************************************************************************)
\* C5: a push of a domain is issued only if the domain's synced boolean is
\* false or an external edit of the domain was notified since the domain's
\* last successful push.
C5_SinglePushPerEpisode ==
    [][\A d \in Domains :
          (pc # PushCall(d) /\ pc' = PushCall(d)) =>
              (~Synced(d) \/ d \in edited)]_vars

(***************************************************************************)
(* C6                                                                      *)
(***************************************************************************)
\* C6 (as stated): with home set and indoor off, a gate-passing fix built
\* into a request after fewer than 29 consecutive passing fixes is ramping,
\* and the one built after 29 (the 30th) is good with the computed NED.
C6_ThirtiethFixGood ==
    [][(BuildsGps /\ Outdoor /\ GatePassed) =>
          /\ GPSGoodUpdates < 29 => req'.gps.quality = 0
          /\ GPSGoodUpdates = 29 =>
                (req'.gps.quality = 1 /\ req'.gps.NED = "computed")]_vars

\* C6 (amended): with home set and indoor off, a gate-passing fix built into
\* a request after fewer than 30 consecutive passing fixes is counted and
\* ramping (samples 1 to 30), and the one built after 30 (the 31st) is good
\* with the computed NED offset.
C6_ThirtyFirstFixGood ==
    [][(BuildsGps /\ Outdoor /\ GatePassed) =>
          /\ GPSGoodUpdates < 30 =>
                (req'.gps.quality = 0 /\ GPSGoodUpdates' = GPSGoodUpdates + 1)
          /\ GPSGoodUpdates = 30 =>
                (req'.gps.quality = 1 /\ req'.gps.NED = "computed"
                 /\ GPSGoodUpdates' = 30)
          /\ GPSGoodUpdates <= 30]_vars

\* a good sample is being sent in a session without failures
C6_Witness ==
    /\ pc = "update" /\ req.gps.updated /\ req.gps.quality = 1
    /\ req.gps.NED = "computed" /\ Failures = 0

C8_WriteBackNeverDirties ==
    [][selfPending' < selfPending =>
          (AHRSCalibrationIsUpdatedFlag' => AHRSCalibrationIsUpdatedFlag)]_vars

(***************************************************************************)
(* C9                                                                      *)
(***************************************************************************)
\* C9: with a domain marked synced, its dirty flag clear and no notification
\* waiting, the coprocessor holds what the record now says: no edit of
\* HomeLocation or Calibration is left unpushed.
C9_NoEditLost ==
    /\ (AhrsStatus.HomeSet /\ ~HomeLocationIsUpdatedFlag) =>
           ahrs.north = load_magnetic_north(HomeLocation.Be)
    /\ (AhrsStatus.CalibrationSet /\ ~AHRSCalibrationIsUpdatedFlag
          /\ selfPending = 0) =>
           ahrs.calibration = load_calibration(AHRSCalibration)

(***************************************************************************)
(* C10                                                                     *)
(***************************************************************************)
\* C10 (as stated): every failed transport call, the resync and the identity
\* exchange included, leaves the task in the resync loop and adds 1 to
\* exactly one of the five counters.
C10_EveryFailureCounted ==
    [][FailStep =>
          /\ pc' = "resync"
          /\ \E c \in Categories :
                errors' = [errors EXCEPT ![c] = (@ + 1) % 65536]]_vars

\* C10 (amended): every failed transport call leaves the task in the resync
\* loop; a failed streaming exchange adds 1 to the counter of its category
\* and to no other, a failed resync attempt or identity exchange changes no
\* counter.
C10_FailureRecovery ==
    [][FailStep =>
          /\ pc' = "resync"
          /\ errors' = IF pc \in {"resync", "serial"} THEN errors
                       ELSE [errors EXCEPT ![CategoryOf(pc)] = (@ + 1) % 65536]]_vars

\* the resync loop entered from a failed calibration push
C10_Witness ==
    pc = "resync" /\ result = "FAIL" /\ errors["calibration"] = 1

(***************************************************************************)
(* C11                                                                     *)
(***************************************************************************)
\* C11: no step lowers any of the five error counters.
C11_CountersNeverDecrease ==
    [][\A c \in Categories : errors'[c] >= errors[c]]_vars

(***************************************************************************)
(* C12                                                                     *)
(***************************************************************************)
\* the square of the length of a pushed vector, in hundredths
NormSquared(v) == v[1] * v[1] + v[2] * v[2] + v[3] * v[3]

\* C12: the magnetic reference in a SetMagNorth request is (1,0,0) when the
\* stored vector is (0,0,0); otherwise it is finite, of length 1 and
\* parallel to the stored vector; a stored (0.3,0.4,0) is sent as
\* (0.6,0.8,0).
C12_UnitMagneticNorth ==
    pc = "north" =>
       LET Be == HomeLocation.Be
       IN  /\ (Be[1] = 0 /\ Be[2] = 0 /\ Be[3] = 0) =>
                req.Be = [finite |-> TRUE, Be |-> <<10, 0, 0>>]
           /\ ~(Be[1] = 0 /\ Be[2] = 0 /\ Be[3] = 0) =>
                /\ req.Be.finite
                /\ NormSquared(req.Be.Be) = 100
                /\ \A i \in 1..3 :
                      req.Be.Be[i] * ISqrt(NormSquared(Be)) = 10 * Be[i]
           /\ Be = <<3, 4, 0, 0>> => req.Be.Be = <<6, 8, 0>>

\* C12 for the vectors of ordinary magnitude only
C12_UnitMagneticNorthInRange ==
    (pc = "north" /\ HomeLocation.Be[4] = 0) => C12_UnitMagneticNorth

(***************************************************************************)
(* C13                                                                     *)
(***************************************************************************)
\* C13: the published yaw is y + 360 if the yaw y of the published
\* quaternion is negative and y otherwise, and it lies in [0, 360).
C13_YawRange ==
    /\ AttitudeActual.Yaw = IF AttitudeActual.q < 0
                            THEN AttitudeActual.q + 360 * YawScale
                            ELSE AttitudeActual.q
    /\ 0 <= AttitudeActual.Yaw
    /\ AttitudeActual.Yaw < 360 * YawScale

\* C13 but for the upper end: the published yaw lies in [0, 360]
C13_YawRangeClosed ==
    0 <= AttitudeActual.Yaw /\ AttitudeActual.Yaw <= 360 * YawScale

(***************************************************************************)
(* C14                                                                     *)
(***************************************************************************)
\* the dirty flag of a domain
DirtyFlag(d) ==
    IF d = "home" THEN HomeLocationIsUpdatedFlag
    ELSE IF d = "calibration" THEN AHRSCalibrationIsUpdatedFlag
    ELSE AHRSSettingsIsUpdatedFlag

\* this step issues the push exchange of domain d
IssuesPush(d) == pc # PushCall(d) /\ pc' = PushCall(d)

\* C14: a step issues the push exchange of a domain only from a state in
\* which the domain's dirty flag is set or its synced boolean is false.
C14_PushOnlyIfDirtyOrUnsynced ==
    [][\A d \in Domains : IssuesPush(d) => (DirtyFlag(d) \/ ~Synced(d))]_vars

\* a push of each kind has been issued: home because of its flag alone, and
\* the coprocessor holds a calibration
C14_Witness ==
    /\ pc = "north" /\ HomeLocationIsUpdatedFlag /\ AhrsStatus.HomeSet
    /\ ahrs.calibration.measure_var # "NONE"

(***************************************************************************)
(* C15                                                                     *)
(***************************************************************************)
\* this step is the successful return of the push exchange of domain d
PushSucceeds(d) == pc = PushCall(d) /\ pc' # pc /\ result' = "OK"

\* this step runs the calibration step of a period without pushing
SkipsCalibration ==
    pc \in {"delay", "serial", "north"} /\ pc' \in {"algorithm", "attituderaw", "update"}

\* C15 (as stated): after a successful calibration push whose echoed mode
\* is ECHO, CalibrationSet is false, whatever it was before.
C15_EchoClearsCalibrationSet ==
    [][(PushSucceeds("calibration") /\ rsp'.measure_var = "ECHO") =>
          ~AhrsStatus'.CalibrationSet]_vars

\* C15 (amended): a successful calibration push sets CalibrationSet unless
\* the echoed mode is ECHO, and then leaves it as it was; a period skips
\* the calibration push only with CalibrationSet true (and the flag clear),
\* so while it is false the push is repeated.
C15_EchoKeepsCalibrationSet ==
    /\ [][PushSucceeds("calibration") =>
             AhrsStatus'.CalibrationSet =
                (IF rsp'.measure_var = "ECHO" THEN AhrsStatus.CalibrationSet ELSE TRUE)]_vars
    /\ [][SkipsCalibration =>
             (AhrsStatus.CalibrationSet /\ ~AHRSCalibrationIsUpdatedFlag)]_vars

\* CalibrationSet is true after a push that was answered with ECHO
C15_Witness ==
    /\ rsp.kind = "calibration" /\ rsp.measure_var = "ECHO"
    /\ AhrsStatus.CalibrationSet

(***************************************************************************)
(* C16                                                                     *)
(***************************************************************************)
\* C16: the step in which the identity exchange fails takes the task to the
\* resync call with the alarm CRITICAL before and after, the five counters
\* and the published status unchanged, and nothing of a streaming period
\* done: no flag, no output and nothing held by the coprocessor changes.
C16_IdentityFailure ==
    [][(pc = "serial" /\ result' = "FAIL") =>
          /\ pc' = "resync" /\ req'.kind = "resync"
          /\ alarm = "CRITICAL" /\ alarm' = "CRITICAL"
          /\ errors' = errors
          /\ AhrsStatus' = AhrsStatus /\ AllUnsynced(AhrsStatus')
          /\ UNCHANGED <<flagVars, settings, ahrs, AttitudeActual, GPSGoodUpdates>>]_vars

\* the identity exchange is in flight in a session that has counted a
\* failure and has an edit waiting; its failure leads back to the state
\* the resync call was left from, so the state after it has no mark of it
C16_Witness ==
    pc = "serial" /\ errors["home"] = 1 /\ HomeLocationIsUpdatedFlag

(***************************************************************************)
(* C17                                                                     *)
(***************************************************************************)
\* the calls of the streaming period
StreamingCalls == {"north", "calibration", "algorithm", "attituderaw", "update"}

\* C17: the step in which a streaming exchange fails ends the period: the
\* task blocks next in the resync call with a resync request, and nothing a
\* later step of the period or a repeated exchange would do has happened:
\* no flag is cleared, the coprocessor has received nothing more and no
\* attitude is published.
C17_FailureEndsPeriod ==
    [][(pc \in StreamingCalls /\ result' = "FAIL") =>
          /\ pc' = "resync" /\ req' = [kind |-> "resync"]
          /\ UNCHANGED <<flagVars, ahrs, AttitudeActual, settings>>]_vars

\* the resync call entered from a failed algorithm push in a period whose
\* snapshot asked for the raw-attitude request and the combined update
C17_Witness ==
    /\ pc = "resync" /\ result = "FAIL" /\ req.kind = "resync"
    /\ errors["algorithm"] = 1
    /\ settings.UpdateRaw /\ settings.UpdateFiltered

(***************************************************************************)
(* C18                                                                     *)
(***************************************************************************)
\* the place of each blocking call in the text of one streaming period
Rank(call) ==
    CASE call = "north"       -> 1
      [] call = "calibration" -> 2
      [] call = "algorithm"   -> 3
      [] call = "attituderaw" -> 4
      [] call = "update"      -> 5
      [] call = "delay"       -> 6
      [] OTHER                -> 0

\* C18: inside a period the task goes from one exchange only to an exchange
\* later in the order home, calibration, algorithm, raw attitude, combined
\* update (or to the periodic wait, or out of the period on a failure), so
\* each is issued at most once and in that order; the settings snapshot
\* changes only where a period starts, where it is the settings object's
\* value; the raw-attitude request is issued only if the snapshot enables
\* raw mode and the combined update only if it enables filtered mode.
C18_FixedOrder ==
    [][/\ (pc \in StreamingCalls /\ pc' # pc) =>
             (pc' = "resync" \/ Rank(pc') > Rank(pc))
       /\ (settings' # settings) =>
             (pc \in {"serial", "delay"} /\ settings' = AHRSSettings)
       /\ (pc' # pc /\ pc' = "attituderaw") => settings'.UpdateRaw
       /\ (pc' # pc /\ pc' = "update") => settings'.UpdateFiltered]_vars

\* the raw-attitude request in flight in a period whose snapshot enables raw
\* mode, after an edit of the settings object that disables it
C18_Witness ==
    pc = "attituderaw" /\ settings.UpdateRaw /\ ~AHRSSettings.UpdateRaw

(***************************************************************************)
(* C19                                                                     *)
(***************************************************************************)
\* the synced booleans of a status record
SyncedIn(st) == [home |-> st.HomeSet, calibration |-> st.CalibrationSet,
                 algorithm |-> st.AlgorithmSet]

\* the domain a push call belongs to
DomainOf(call) == CategoryOf(call)

\* C19: the step in which a streaming exchange fails adds 1 (in the 16 bits
\* of the counter) to the counter of the exchange's category and changes no
\* other counter; if the exchange is a push, its failure branch writes one
\* status record, in which the synced boolean of the pushed domain is false
\* and the other two are as they were; the raw-attitude and update failure
\* branches write no status record.
C19_FailureBranch ==
    [][(pc \in StreamingCalls /\ result' = "FAIL") =>
          /\ errors' = [errors EXCEPT ![CategoryOf(pc)] = (@ + 1) % (2 ^ CounterWidth)]
          /\ IF pc \in {"north", "calibration", "algorithm"}
             THEN /\ Cardinality(published') = 1
                  /\ \A data \in published' :
                        SyncedIn(data) =
                           [SyncedIn(AhrsStatus) EXCEPT ![DomainOf(pc)] = FALSE]
             ELSE published' = {}]_vars

\* a home push has failed with the other two domains synced: the branch
\* wrote a record with only HomeSet false, and the top of the outer loop
\* has since cleared all three
C19_Witness ==
    /\ pc = "resync" /\ result = "FAIL" /\ errors["home"] = 1
    /\ \E data \in published :
          ~data.HomeSet /\ data.CalibrationSet /\ data.AlgorithmSet
    /\ AllUnsynced(AhrsStatus)

(***************************************************************************)
(* C20                                                                     *)
(***************************************************************************)
\* C20: when the push of a domain succeeds and no external edit of the
\* domain was notified while the push was in flight, the domain's dirty
\* flag is clear after the step.
C20_SuccessClearsFlag ==
    [][\A d \in Domains :
          (PushSucceeds(d) /\ ~arrived) => ~DirtyFlag(d)']_vars

\* C20 for HomeLocation and Calibration alone
C20_SuccessClearsHomeAndCalibration ==
    [][\A d \in {"home", "calibration"} :
          (PushSucceeds(d) /\ ~arrived) => ~DirtyFlag(d)']_vars

(***************************************************************************)
(* C21                                                                     *)
(***************************************************************************)
\* C21: a step in which the dirty flag of a configuration domain goes from
\* set to clear is the successful return of the push of that domain, and of
\* nothing else: no failure, no resync or identity exchange, no push of
\* another domain and no callback clears it.
C21_ClearedOnlyByOwnPush ==
    [][\A d \in Domains :
          (DirtyFlag(d) /\ ~DirtyFlag(d)') => PushSucceeds(d)]_vars

\* the home record was edited, which set its flag, and a successful home
\* push has since cleared it
C21_Witness ==
    /\ HomeLocation.Be # <<0, 0, 0, 0>>
    /\ AhrsStatus.HomeSet /\ ~HomeLocationIsUpdatedFlag
    /\ ahrs.north = load_magnetic_north(HomeLocation.Be)

(***************************************************************************)
(* C22                                                                     *)
(***************************************************************************)
\* C22: the suppression flag rises only in the step of the task that writes
\* the calibration back (the successful calibration push, which queues the
\* write-back's notification); a calibration notification, from an external
\* writer or from the write-back, that finds the suppression flag set clears
\* it and leaves the dirty flag as it is, and one that finds it clear sets
\* the dirty flag and leaves the suppression flag clear.
C22_OneShotSuppression ==
    [][/\ (~AHRSCalibrationIsLocallyUpdateFlag /\ AHRSCalibrationIsLocallyUpdateFlag') =>
             (PushSucceeds("calibration") /\ selfPending' = selfPending + 1)
       /\ (CalibrationEdited \/ CalibrationWrittenBack) =>
             IF AHRSCalibrationIsLocallyUpdateFlag
             THEN /\ ~AHRSCalibrationIsLocallyUpdateFlag'
                  /\ AHRSCalibrationIsUpdatedFlag' = AHRSCalibrationIsUpdatedFlag
             ELSE /\ AHRSCalibrationIsUpdatedFlag'
                  /\ ~AHRSCalibrationIsLocallyUpdateFlag']_vars

\* an external edit made after the last successful push has consumed the
\* suppression: both flags are clear and the write-back's own notification
\* is still waiting
C22_Witness ==
    /\ "calibration" \in edited /\ selfPending > 0
    /\ ~AHRSCalibrationIsUpdatedFlag /\ ~AHRSCalibrationIsLocallyUpdateFlag

(***************************************************************************)
(* C23                                                                     *)
(***************************************************************************)
\* C23: an update request whose GPS sub-message has quality 0 (ramping)
\* carries a zero NED displacement.
C23_RampingZeroNED ==
    (pc = "update" /\ req.gps.updated /\ req.gps.quality = 0) =>
        req.gps.NED = "zero"

(***************************************************************************)
(* C24                                                                     *)
(***************************************************************************)
\* C24: a GPS sub-message built while the home reference is not set or the
\* indoor flag is set has quality -1 (indoor) and zero NED, ground speed and
\* heading, whatever the fix and the good-fix counter are.
C24_IndoorSample ==
    [][(BuildsGps /\ ~Outdoor) =>
          req'.gps = [updated |-> TRUE, quality |-> -1,
                      NED |-> "zero", speed |-> "zero"]]_vars

\* an indoor sample is being sent for a gate-passing fix, with the home
\* reference set and the counter past its first increments
C24_Witness ==
    /\ pc = "update" /\ req.gps.updated /\ req.gps.quality = -1
    /\ HomeLocation.Set /\ HomeLocation.Indoor
    /\ GPSPosition = <<7, 34>> /\ GPSGoodUpdates > 1

(***************************************************************************)
(* C25                                                                     *)
(***************************************************************************)
\* this step builds the request of the combined update
BuildsUpdate == pc # "update" /\ pc' = "update"

\* C25: the update request carries a barometer sample exactly if the
\* barometer flag is set when the request is built, and a GPS sample exactly
\* if the GPS flag is; a successful exchange clears the flag of each sample
\* the request carried and leaves the flag of a sample it did not carry as
\* it is; a failed exchange changes neither flag.
C25_SampleFlags ==
    /\ [][BuildsUpdate =>
             /\ req'.barometer = BaroAltitudeIsUpdatedFlag
             /\ req'.gps.updated = GPSPositionIsUpdatedFlag]_vars
    /\ [][(pc = "update" /\ pc' # pc /\ result' = "OK") =>
             /\ BaroAltitudeIsUpdatedFlag' =
                    (BaroAltitudeIsUpdatedFlag /\ ~req.barometer)
             /\ GPSPositionIsUpdatedFlag' =
                    (GPSPositionIsUpdatedFlag /\ ~req.gps.updated)]_vars
    /\ [][(pc = "update" /\ result' = "FAIL") =>
             UNCHANGED <<BaroAltitudeIsUpdatedFlag, GPSPositionIsUpdatedFlag>>]_vars

\* an update that carried a GPS sample and no barometer sample has
\* succeeded; the barometer sample that arrived meanwhile is still flagged
C25_Witness ==
    /\ pc = "delay" /\ result = "OK"
    /\ req.kind = "update" /\ req.gps.updated /\ ~req.barometer
    /\ BaroAltitudeIsUpdatedFlag /\ ~GPSPositionIsUpdatedFlag

(***************************************************************************)
(* C26                                                                     *)
(***************************************************************************)
\* this step is a resync attempt or an identity exchange that fails
ResyncOrIdentityFails == pc \in {"resync", "serial"} /\ result' = "FAIL"

\* C26: if from some point on no resync attempt and no identity exchange
\* fails, then, however many failed before, the session is again and again
\* STREAMING with the alarm cleared: every return to the resync loop is
\* followed by a return to STREAMING.
C26_EventuallyStreaming ==
    <>[][~ResyncOrIdentityFails]_vars =>
        []<>(SessionState = "STREAMING" /\ alarm = "OK")

\* the identity exchange is in flight after a resync attempt that succeeded
\* at last: the episode began with a failed streaming exchange
C26_Witness ==
    pc = "serial" /\ result = "OK" /\ alarm = "CRITICAL" /\ Failures = 1

(***************************************************************************)
(* C27                                                                     *)
(***************************************************************************)
\* C27: the good-fix counter is between 0 and 30 in every state; a step that
\* changes it either adds 1, and then it was below 30 and the step builds a
\* GPS sub-message from a gate-passing fix, or sets it to 0.
C27_CounterRange ==
    /\ [](GPSGoodUpdates \in 0..30)
    /\ [][GPSGoodUpdates' # GPSGoodUpdates =>
             \/ /\ GPSGoodUpdates' = GPSGoodUpdates + 1
                /\ GPSGoodUpdates < 30
                /\ BuildsGps /\ GatePassed
             \/ GPSGoodUpdates' = 0]_vars

\* the counter at its ceiling while one more gate-passing fix is waiting
C27_Witness ==
    /\ GPSGoodUpdates = 30 /\ GPSPositionIsUpdatedFlag /\ GatePassed /\ Outdoor
    /\ pc = "delay"

(***************************************************************************)
(* C28                                                                     *)
(***************************************************************************)
\* C28: while the session is STREAMING the counters in the status record
\* equal the task's counters; the record's counters change only in the step
\* in which the identity exchange succeeds; the step in which a streaming
\* exchange fails leaves them as they were, behind the task's counters.
C28_PublishedCounters ==
    /\ [](SessionState = "STREAMING" => AhrsStatus.CommErrors = errors)
    /\ [][AhrsStatus'.CommErrors # AhrsStatus.CommErrors =>
             (pc = "serial" /\ result' = "OK")]_vars
    /\ [][(pc \in StreamingCalls /\ result' = "FAIL") =>
             /\ AhrsStatus'.CommErrors = AhrsStatus.CommErrors
             /\ AhrsStatus'.CommErrors # errors']_vars

\* the identity exchange is in flight after a failed raw-attitude request:
\* the status record still shows no error
C28_Witness ==
    /\ pc = "serial" /\ errors["attituderaw"] = 1
    /\ AhrsStatus.CommErrors = NoErrors

(***************************************************************************)
(* C29                                                                     *)
(***************************************************************************)
\* C29: a step that changes the good-fix counter builds a GPS sub-message
\* with the home reference set and indoor off; so no other step of the
\* period, no period without a new fix or with filtered mode off and no
\* indoor sample changes it; and the step in which the update exchange
\* fails leaves the counter at the value the building of the request gave it.
C29_CounterFrame ==
    /\ [][GPSGoodUpdates' # GPSGoodUpdates => (BuildsGps /\ Outdoor)]_vars
    /\ [][(pc = "update" /\ result' = "FAIL") =>
             GPSGoodUpdates' = GPSGoodUpdates]_vars

\* the update exchange whose request counted the second passing fix has
\* failed: the task is at the resync call with the counter at 2
C29_Witness ==
    /\ pc = "resync" /\ result = "FAIL" /\ errors["update"] = 1
    /\ GPSGoodUpdates = 2

(***************************************************************************)
(* C30                                                                     *)
(***************************************************************************)
\* the task waits for the next period with nothing to push and nothing to
\* request: the settings object has raw and filtered mode off, the three
\* domains are synced and no configuration dirty flag is set
Quiet ==
    /\ pc = "delay"
    /\ ~AHRSSettings.UpdateRaw /\ ~AHRSSettings.UpdateFiltered
    /\ \A d \in Domains : Synced(d) /\ ~DirtyFlag(d)

\* C30: from such a state every step, the start of the next period
\* included, leaves the task waiting for the next period: no exchange is
\* issued, so none can fail; the alarm stays cleared and the counters stay
\* as they are.
C30_IdlePeriod ==
    [][Quiet => (pc' = "delay" /\ alarm = "OK" /\ alarm' = "OK"
                 /\ errors' = errors)]_vars

\* an idle session on a link that the model still allows to fail, after a
\* period in which the magnetic reference was pushed again
C30_Witness ==
    Quiet /\ Failures = 0 /\ HomeLocation.Be # <<0, 0, 0, 0>>

(***************************************************************************)
(* C31                                                                     *)
(***************************************************************************)
\* this step is a transport operation that fails
TransportFails ==
    \/ pc = "resync" /\ backoff' # backoff
    \/ pc # "resync" /\ pc' = "resync"

\* this step is an external edit of a configuration record
ExternalEdit ==
    \/ AHRSSettingsUpdatedCb
    \/ HomeLocationUpdatedCb(HomeBeEdits)
    \/ CalibrationEdited

\* the session has its configuration pushed: STREAMING, HomeSet and
\* AlgorithmSet true, the HomeLocation and Calibration dirty flags clear, and
\* CalibrationSet true or the calibration push just answered with AHRS_ECHO
InSync ==
    /\ SessionState = "STREAMING"
    /\ AhrsStatus.HomeSet /\ AhrsStatus.AlgorithmSet
    /\ ~HomeLocationIsUpdatedFlag /\ ~AHRSCalibrationIsUpdatedFlag
    /\ \/ AhrsStatus.CalibrationSet
       \/ rsp.kind = "calibration" /\ rsp.measure_var = "ECHO"

\* C31: if from some point on no transport operation fails and no external
\* edit arrives, the session is, from then on again and again, STREAMING
\* with its configuration pushed.
C31_EventuallyInSync ==
    <>[][~TransportFails /\ ~ExternalEdit]_vars => []<>InSync

\* the configuration is pushed again in a session that had a failed
\* calibration push and an edit of the magnetic reference
C31_Witness ==
    /\ InSync /\ AhrsStatus.CalibrationSet
    /\ errors["calibration"] = 1 /\ HomeLocation.Be # <<0, 0, 0, 0>>

=============================================================================
